---- MODULE Spec2Model ----
(***************************************************************************)
(* Model of the three Kaiterra REST example scripts                        *)
(*   src/examples/restv1-hmac.py, restv1-auth.py, restv1-apikey.py         *)
(*                                                                         *)
(* Text (str) and bytes are sequences of character codes: 'a' is 97, the   *)
(* non-ASCII letter e-acute is 233.  A dict is the sequence of its         *)
(* <<key, value>> pairs in insertion order, as Python keeps it.            *)
(***************************************************************************)
EXTENDS Integers, Sequences, FiniteSets, TLC

(***************************************************************************)
(* Module-level configuration of the scripts.                              *)
(***************************************************************************)
\* restv1-hmac.py: "https://api.kaiterra.cn/v1/"
API_BASE_URL ==
    <<104, 116, 116, 112, 115, 58, 47, 47, 97, 112, 105, 46, 107, 97, 105, 116, 101, 114, 114, 97, 46, 99, 110, 47, 118, 49, 47>>
\* restv1-hmac.py: "00000000001"
CLIENT_ID ==
    <<48, 48, 48, 48, 48, 48, 48, 48, 48, 48, 49>>
\* restv1-hmac.py: "your-hmac-secret-key" (the placeholder the user replaces)
HMAC_SECRET_KEY ==
    <<121, 111, 117, 114, 45, 104, 109, 97, 99, 45, 115, 101, 99, 114, 101, 116, 45, 107, 101, 121>>
\* restv1-auth.py: "https://api.origins-china.cn/v1/"
base_url ==
    <<104, 116, 116, 112, 115, 58, 47, 47, 97, 112, 105, 46, 111, 114, 105, 103, 105, 110, 115, 45, 99, 104, 105, 110, 97, 46, 99, 110, 47, 118, 49, 47>>
\* restv1-auth.py: "kOpAgVMnz2zM5l6XKQwv4JmUEvopnmUewFKXQ0Wvf9Su72a9"
dev_demo_key ==
    <<107, 79, 112, 65, 103, 86, 77, 110, 122, 50, 122, 77, 53, 108, 54, 88, 75, 81, 119, 118, 52, 74, 109, 85, 69, 118, 111, 112, 110, 109, 85, 101, 119, 70, 75, 88, 81, 48, 87, 118, 102, 57, 83, 117, 55, 50, 97, 57>>
\* restv1-auth.py: "2c13f157da77"
client_id ==
    <<50, 99, 49, 51, 102, 49, 53, 55, 100, 97, 55, 55>>
\* restv1-auth.py: the 128 hex digits "c92b4edc...b985b1" (64 bytes)
hmac_secret_key ==
    <<99, 57, 50, 98, 52, 101, 100, 99, 102, 50, 53, 48, 48, 54, 99, 49, 56, 53, 52, 97, 98, 51, 51, 49, 52, 52, 101, 52, 49, 48, 49, 50, 54, 49, 99, 52, 49, 57, 98, 52, 56, 99, 54, 99, 53, 97, 50, 100, 98, 102, 51, 99, 51, 52, 57, 98, 100, 48, 55, 98, 49, 102, 50, 55, 99, 50, 53, 57, 54, 51, 50, 97, 50, 98, 102, 54, 56, 49, 50, 101, 49, 53, 98, 57, 57, 52, 97, 98, 98, 49, 100, 99, 102, 102, 97, 100, 49, 54, 48, 97, 52, 57, 53, 53, 54, 49, 57, 56, 54, 98, 48, 52, 53, 49, 52, 98, 100, 53, 101, 48, 55, 48, 98, 57, 56, 53, 98, 49>>
\* restv1-apikey.py: "https://api.kaiterra.com/v1/"
ApiKey_API_BASE_URL ==
    <<104, 116, 116, 112, 115, 58, 47, 47, 97, 112, 105, 46, 107, 97, 105, 116, 101, 114, 114, 97, 46, 99, 111, 109, 47, 118, 49, 47>>
\* restv1-apikey.py: "your-api-key"
API_KEY ==
    <<121, 111, 117, 114, 45, 97, 112, 105, 45, 107, 101, 121>>

\* 'X-Kaiterra-Client'
client_header ==
    <<88, 45, 75, 97, 105, 116, 101, 114, 114, 97, 45, 67, 108, 105, 101, 110, 116>>
\* 'X-Kaiterra-Time'
timestamp_header ==
    <<88, 45, 75, 97, 105, 116, 101, 114, 114, 97, 45, 84, 105, 109, 101>>
\* 'X-Kaiterra-HMAC'
hmac_header ==
    <<88, 45, 75, 97, 105, 116, 101, 114, 114, 97, 45, 72, 77, 65, 67>>
\* 'Content-Type'
content_type_header ==
    <<67, 111, 110, 116, 101, 110, 116, 45, 84, 121, 112, 101>>
\* 'application/json'
application_json ==
    <<97, 112, 112, 108, 105, 99, 97, 116, 105, 111, 110, 47, 106, 115, 111, 110>>
\* 'key'
key_param ==
    <<107, 101, 121>>

(***************************************************************************)
(* Text and bytes.                                                         *)
(***************************************************************************)
Min(a, b) == IF a < b THEN a ELSE b

\* s.strip(c): s without its leading and trailing runs of the character c
RECURSIVE LStripFrom(_, _, _)
LStripFrom(s, c, i) ==
    IF i <= Len(s) /\ s[i] = c THEN LStripFrom(s, c, i + 1) ELSE i

RECURSIVE RStripFrom(_, _, _)
RStripFrom(s, c, j) ==
    IF j >= 1 /\ s[j] = c THEN RStripFrom(s, c, j - 1) ELSE j

strip(s, c) ==
    LET i == LStripFrom(s, c, 1)
        j == RStripFrom(s, c, Len(s))
    IN  IF i > j THEN << >> ELSE SubSeq(s, i, j)

\* s.encode('ascii') succeeds exactly when every character is below 128
IsAscii(s) == \A i \in 1..Len(s) : s[i] < 128

\* one lowercase / uppercase hexadecimal digit
LowerHexDigit(d) == IF d < 10 THEN 48 + d ELSE 87 + d
UpperHexDigit(d) == IF d < 10 THEN 48 + d ELSE 55 + d

\* '{:x}'.format(n) for n >= 0
RECURSIVE format_x(_)
format_x(n) ==
    IF n < 16 THEN <<LowerHexDigit(n)>>
    ELSE format_x(n \div 16) \o <<LowerHexDigit(n % 16)>>

\* the value of a hexadecimal digit character, -1 for any other character
HexValue(c) ==
    IF c >= 48 /\ c <= 57 THEN c - 48
    ELSE IF c >= 97 /\ c <= 102 THEN c - 87
    ELSE IF c >= 65 /\ c <= 70 THEN c - 55
    ELSE 0 - 1

\* ASCII white space, which fromhex skips between bytes
IsSpace(c) == c \in {9, 10, 11, 12, 13, 32}

\* the positions of s that hold no white space, in order
HexPositions(s) ==
    SelectSeq([i \in 1..Len(s) |-> i] \o << >>, LAMBDA i : ~IsSpace(s[i]))

\* bytearray.fromhex(s) reads pairs of adjacent hex digits and skips white
\* space between the pairs; anything else is a ValueError
IsValidHex(s) ==
    LET p == HexPositions(s)
    IN  /\ Len(p) % 2 = 0
        /\ \A j \in 1..(Len(p) \div 2) :
              /\ p[2 * j] = p[2 * j - 1] + 1
              /\ HexValue(s[p[2 * j - 1]]) >= 0
              /\ HexValue(s[p[2 * j]]) >= 0

fromhex(s) ==
    LET p == HexPositions(s)
    IN  [j \in 1..(Len(p) \div 2) |->
            16 * HexValue(s[p[2 * j - 1]]) + HexValue(s[p[2 * j]])] \o << >>

\* a ^ b on the low n bits
RECURSIVE XorBits(_, _, _)
XorBits(a, b, n) ==
    IF n = 0 THEN 0
    ELSE 2 * XorBits(a \div 2, b \div 2, n - 1) + (((a % 2) + (b % 2)) % 2)

\* c ^ b for every byte b, at index b + 1
XorRow(c) == [i \in 1..256 |-> XorBits(c, i - 1, 8)] \o << >>

Xor5c == XorRow(92)

Xor36 == XorRow(54)

\* 0x5c ^ b and 0x36 ^ b, the two the scripts compute
Xor8(c, b) ==
    IF c = 92 THEN Xor5c[b + 1]
    ELSE IF c = 54 THEN Xor36[b + 1]
    ELSE XorBits(c, b, 8)

\* bytes(c ^ b for b in key)
XorPad(c, k) == [i \in 1..Len(k) |-> Xor8(c, k[i])] \o << >>

\* bytes(0 for _ in range(n))
Zeros(n) == [i \in 1..n |-> 0] \o << >>

(***************************************************************************)
(* urllib.parse.urlencode(params): quote_plus(k) '=' quote_plus(v) joined  *)
(* by '&', in the dict's order.                                            *)
(***************************************************************************)
\* characters quote_plus leaves alone: letters, digits and _ . - ~
IsUnreserved(c) ==
    \/ c >= 48 /\ c <= 57
    \/ c >= 65 /\ c <= 90
    \/ c >= 97 /\ c <= 122
    \/ c \in {95, 46, 45, 126}

PercentByte(b) == <<37, UpperHexDigit(b \div 16), UpperHexDigit(b % 16)>>

\* the UTF-8 bytes of one character below U+0800, percent-encoded
QuoteChar(c) ==
    IF IsUnreserved(c) THEN <<c>>
    ELSE IF c = 32 THEN <<43>>
    ELSE IF c < 128 THEN PercentByte(c)
    ELSE PercentByte(192 + (c \div 64)) \o PercentByte(128 + (c % 64))

RECURSIVE QuoteFrom(_, _)
QuoteFrom(s, i) ==
    IF i > Len(s) THEN << >> ELSE QuoteChar(s[i]) \o QuoteFrom(s, i + 1)

quote_plus(s) == QuoteFrom(s, 1)

RECURSIVE UrlencodeFrom(_, _)
UrlencodeFrom(d, i) ==
    IF i > Len(d) THEN << >>
    ELSE (IF i > 1 THEN <<38>> ELSE << >>)
         \o quote_plus(d[i][1]) \o <<61>> \o quote_plus(d[i][2])
         \o UrlencodeFrom(d, i + 1)

urlencode(d) == UrlencodeFrom(d, 1)

(***************************************************************************)
(* base64.b64encode                                                        *)
(***************************************************************************)
B64Char(v) ==
    IF v < 26 THEN 65 + v
    ELSE IF v < 52 THEN 71 + v
    ELSE IF v < 62 THEN v - 4
    ELSE IF v = 62 THEN 43
    ELSE 47

RECURSIVE B64From(_, _)
B64From(b, i) ==
    LET n == Len(b) - i + 1
    IN  IF n <= 0 THEN << >>
        ELSE IF n = 1 THEN
            <<B64Char(b[i] \div 4), B64Char((b[i] % 4) * 16), 61, 61>>
        ELSE IF n = 2 THEN
            <<B64Char(b[i] \div 4),
              B64Char(((b[i] % 4) * 16) + (b[i + 1] \div 16)),
              B64Char((b[i + 1] % 16) * 4), 61>>
        ELSE
            <<B64Char(b[i] \div 4),
              B64Char(((b[i] % 4) * 16) + (b[i + 1] \div 16)),
              B64Char(((b[i + 1] % 16) * 4) + (b[i + 2] \div 64)),
              B64Char(b[i + 2] % 64)>> \o B64From(b, i + 3)

b64encode(b) == B64From(b, 1)

(***************************************************************************)
(* dict                                                                    *)
(***************************************************************************)
DictHas(d, k) == \E i \in 1..Len(d) : d[i][1] = k

DictGet(d, k) == d[CHOOSE i \in 1..Len(d) : d[i][1] = k][2]

\* d[k] = v: an existing key keeps its place, a new key goes last
DictSet(d, k, v) ==
    IF DictHas(d, k)
    THEN [i \in 1..Len(d) |-> IF d[i][1] = k THEN <<k, v>> ELSE d[i]] \o << >>
    ELSE Append(d, <<k, v>>)

DictKeys(d) == {d[i][1] : i \in 1..Len(d)}

DictItems(d) == {d[i] : i \in 1..Len(d)}

(***************************************************************************)
(* hmac(key, message), restv1-hmac.py lines 26-46 and, word for word,      *)
(* restv1-auth.py lines 48-68.                                             *)
(***************************************************************************)
\* hashlib.sha256().block_size
blocksize == 64

\* hashlib.sha256().digest_size
digest_size == 32

\* The sum of w(i) * msg[i] over lo..hi, halving the range
RECURSIVE ByteSum(_, _, _, _)
ByteSum(msg, lo, hi, weighted) ==
    IF lo > hi THEN 0
    ELSE IF lo = hi THEN (IF weighted THEN (Len(msg) - lo + 1) * msg[lo] ELSE msg[lo])
    ELSE LET mid == (lo + hi) \div 2
         IN  ByteSum(msg, lo, mid, weighted) + ByteSum(msg, mid + 1, hi, weighted)

\* hash(msg) = hashlib.sha256(msg).digest().  SHA-256 is the library's; what
\* the scripts rely on is a deterministic function of the whole byte string
\* with a digest of digest_size bytes, and that is what stands here: the
\* digest is spun from the two sums of Adler-32, which depend on every byte
\* and on its position.
hash(msg) ==
    LET a == (1 + ByteSum(msg, 1, Len(msg), FALSE)) % 65521
        b == (Len(msg) + ByteSum(msg, 1, Len(msg), TRUE)) % 65521
    IN  [i \in 1..digest_size |->
            ((a * i) + (b * (i + 7)) + (Len(msg) * i * i)) % 256] \o << >>

\* a wrong normalisation, for comparison: a key of exactly one block is hashed too
HmacKeyHashesFullBlock(k) ==
    LET k1 == IF Len(k) >= blocksize THEN hash(k) ELSE k
    IN  IF Len(k1) < blocksize THEN k1 \o Zeros(blocksize - Len(k1)) ELSE k1

\* hmac's `key` once lines 37-41 have run: hashed when longer than a block,
\* then zero-padded when shorter than a block
hmac_key(k) ==
    LET k1 == IF Len(k) > blocksize THEN hash(k) ELSE k
    IN  IF Len(k1) < blocksize THEN k1 \o Zeros(blocksize - Len(k1)) ELSE k1

o_key_pad(k) == XorPad(92, hmac_key(k))

i_key_pad(k) == XorPad(54, hmac_key(k))

hmac(k, message) == hash(o_key_pad(k) \o hash(i_key_pad(k) \o message))

(***************************************************************************)
(* State.                                                                  *)
(***************************************************************************)
VARIABLES
    script,               \* which of the three example scripts is running
    auth_method,          \* restv1-auth.py's auth_method
    secret_key,           \* HMAC_SECRET_KEY / hmac_secret_key, as edited by the user
    now,                  \* int(time.time())
    hmac_default_headers, \* the dict() made once as auth_request_as_hmac's default `headers`
    url_default_params,   \* the dict() made once as auth_request_as_url's default `params`
    url_default_headers,  \* the dict() made once as auth_request_as_url's default `headers`
    req_default_params,   \* the {} made once as do_req's / do_get's default `params`
    pc,                   \* "idle", "awaiting" (blocked in the HTTP call), "done"
    op,                   \* the function the caller called
    args,                 \* its arguments, as they were when it was called
    caller_params,        \* the caller's own params mapping, as the call left it
    caller_headers,       \* the caller's own headers mapping, as the call left it
    auth_before,          \* the headers mapping the signer was given, before it ran
    auth_after,           \* the same mapping when the signer returned or raised
    ret,                  \* (url, headers) returned by the auth function
    payload,              \* the signer's timestamp and full_payload
    sent,                 \* the request handed to requests
    resp,                 \* the response
    outcome,              \* how the call ended
    hm_key, hm_message,   \* the arguments of one call of hmac()
    hm_called,            \* whether that call has run
    hm_o_key_pad, hm_i_key_pad, \* its two pads
    hm_digest             \* what it returned

vars ==
    <<script, auth_method, secret_key, now, hmac_default_headers,
      url_default_params, url_default_headers, req_default_params,
      pc, op, args, caller_params, caller_headers, auth_before, auth_after,
      ret, payload, sent, resp, outcome,
      hm_key, hm_message, hm_called, hm_o_key_pad, hm_i_key_pad, hm_digest>>

config_vars == <<script, auth_method, secret_key>>

default_vars ==
    <<hmac_default_headers, url_default_params, url_default_headers,
      req_default_params>>

frame_vars ==
    <<op, args, caller_params, caller_headers, auth_before, auth_after,
      ret, payload, sent, resp, outcome>>

hm_vars == <<hm_key, hm_message, hm_called, hm_o_key_pad, hm_i_key_pad, hm_digest>>

(***************************************************************************)
(* Bounds and the inputs the callers draw from.                            *)
(***************************************************************************)
\* the clock reading the run starts at (0x5f3759df)
StartTime == 1597463007

\* how many seconds the clock advances during a run
MaxTicks == 1

\* hmac() is applied to keys of every length 0..MaxKeyLen
MaxKeyLen == 66

\* "/a" and "/" followed by e-acute
Paths == {<<47, 97>>, <<47, 233>>}

\* b'' and b'{}'
Bodies == {<< >>, <<123, 125>>}

\* {} and {'q': 'a b'}
ParamValues == {<< >>, << <<(<<113>>), (<<97, 32, 98>>)>> >>}

\* {'Accept': 'a'}
HeaderValues == {<< <<(<<65, 99, 99, 101, 112, 116>>), (<<97>>)>> >>}

Verbs == {"get", "post", "put", "delete"}

StatusCodes == {101, 200, 299, 304, 400, 599, 600}

\* the responses the server gives: every status with the content b'{}', and
\* 200 and 304 with no content as well
Responses ==
    {[status |-> s, content |-> <<123, 125>>] : s \in StatusCodes}
        \cup {[status |-> s, content |-> << >>] : s \in {200, 304}}

\* the secret as shipped in restv1-hmac.py (a placeholder, not hex) and in
\* restv1-auth.py (128 hex digits, 64 bytes), a 2-byte secret "00fF" and a
\* 65-byte one
SecretKeys ==
    { HMAC_SECRET_KEY, hmac_secret_key,
      <<48, 48, 102, 70>>,
      hmac_secret_key \o <<48, 49>> }

NoArgs ==
    [verb |-> "", url |-> << >>, body |-> << >>,
     params_given |-> FALSE, params |-> << >>,
     headers_given |-> FALSE, headers |-> << >>]

NoRet == [ok |-> FALSE, url |-> << >>, headers |-> << >>]

NoPayload == [ok |-> FALSE, stamp |-> << >>, bytes |-> << >>]

NoSent ==
    [ok |-> FALSE, verb |-> "", url |-> << >>, headers |-> << >>,
     has_data |-> FALSE, data |-> << >>,
     has_params |-> FALSE, params |-> << >>]

NoResp == [ok |-> FALSE, status |-> 0, content |-> << >>]

NoOutcome == [kind |-> "none", exc |-> "", value |-> ""]

Raised(e) == [kind |-> "raised", exc |-> e, value |-> ""]

Returned(v) == [kind |-> "returned", exc |-> "", value |-> v]

(***************************************************************************)
(* auth_request_as_hmac, restv1-hmac.py lines 49-87 (restv1-auth.py 71-109 *)
(* is the same text over base_url, client_id, hmac_secret_key).            *)
(***************************************************************************)
\* '{}={}&{}={}'.format(client_header, ..., timestamp_header, ...)
header_component(client, stamp) ==
    client_header \o <<61>> \o client \o <<38>>
        \o timestamp_header \o <<61>> \o stamp

\* relative_url, followed by "?" and the encoded params when there are any
relative_url_with_params(relative_url, params) ==
    IF params # << >> THEN relative_url \o <<63>> \o urlencode(params)
    ELSE relative_url

\* a wrong payload, for comparison: the body is left out
FullPayloadNoBody(hc, uc, body) == hc \o uc

\* header_component + url_component + body
full_payload(hc, uc, body) == hc \o uc \o body

\* a wrong signature, for comparison: the secret's text itself
SignatureLeaksKey(secret, fp) == secret

\* what goes into headers['X-Kaiterra-HMAC']
signature(secret, fp) == b64encode(hmac(fromhex(secret), fp))

\* a wrong signer, for comparison: the path is encoded without insisting on ASCII
AuthHmacEncodesLoosely(relative_url, params, headers, body, base, client, secret, t) ==
    IF ~IsValidHex(secret)
    THEN [exc |-> "ValueError", url |-> << >>, headers |-> headers,
          payload |-> NoPayload]
    ELSE
      LET stamp == format_x(t)
          h1 == DictSet(headers, client_header, client)
          h2 == DictSet(h1, timestamp_header, stamp)
          hc == header_component(DictGet(h2, client_header),
                                 DictGet(h2, timestamp_header))
          ru == relative_url_with_params(relative_url, params)
          fp == full_payload(hc, ru, body)
          h3 == DictSet(h2, hmac_header, signature(secret, fp))
      IN  [exc |-> "", url |-> strip(base, 47) \o ru, headers |-> h3,
           payload |-> [ok |-> TRUE, stamp |-> stamp, bytes |-> fp]]

\* The call's result: the exception it raised ("" when it returned), the
\* url it returned, `headers` as the call left that mapping, and the
\* timestamp and full_payload it built.
auth_request_as_hmac(relative_url, params, headers, body, base, client, secret, t) ==
    IF ~IsValidHex(secret)
    THEN [exc |-> "ValueError", url |-> << >>, headers |-> headers,
          payload |-> NoPayload]
    ELSE
      LET stamp == format_x(t)
          h1 == DictSet(headers, client_header, client)
          h2 == DictSet(h1, timestamp_header, stamp)
          hc == header_component(DictGet(h2, client_header),
                                 DictGet(h2, timestamp_header))
          ru == relative_url_with_params(relative_url, params)
      IN  IF ~IsAscii(hc) \/ ~IsAscii(ru)
          THEN [exc |-> "UnicodeEncodeError", url |-> << >>, headers |-> h2,
                payload |-> NoPayload]
          ELSE
            LET fp == full_payload(hc, ru, body)
                h3 == DictSet(h2, hmac_header, signature(secret, fp))
            IN  [exc |-> "", url |-> strip(base, 47) \o ru, headers |-> h3,
                 payload |-> [ok |-> TRUE, stamp |-> stamp, bytes |-> fp]]

(***************************************************************************)
(* auth_request_as_url, restv1-auth.py lines 112-119.                      *)
(***************************************************************************)
\* a wrong authenticator, for comparison: the caller's params are left out of the query
AuthUrlDropsParams(relative_url, params, base, devkey) ==
    LET p == <<(<<key_param, devkey>>)>>
    IN  [url |-> strip(base, 47) \o relative_url \o <<63>> \o urlencode(p),
         params |-> DictSet(params, key_param, devkey)]

\* The url it returns, and `params` as the call left that mapping; the
\* headers it returns are the mapping it was given.
auth_request_as_url(relative_url, params, base, devkey) ==
    LET p == DictSet(params, key_param, devkey)
    IN  [url |-> strip(base, 47) \o relative_url \o <<63>> \o urlencode(p),
         params |-> p]

(***************************************************************************)
(* The tail of do_req / do_get.                                            *)
(***************************************************************************)
\* response.raise_for_status() raises HTTPError for a 4xx or 5xx status
raise_for_status(status) == status >= 400 /\ status < 600

\* json.loads(content_str) when there is content, else None
ParsedOrNone(content) ==
    IF Len(content) > 0 THEN Returned("json") ELSE Returned("None")

\* restv1-hmac.py lines 114-125
HmacPy_do_req_result(status, content) ==
    IF raise_for_status(status) THEN Raised("HTTPError")
    ELSE ParsedOrNone(content)

\* restv1-auth.py lines 146-159
AuthPy_do_req_result(status, content) ==
    IF raise_for_status(status) THEN Raised("HTTPError")
    ELSE IF ~(200 <= status /\ status < 300) THEN Raised("Exception")
    ELSE ParsedOrNone(content)

\* restv1-apikey.py lines 43-55
ApiKeyPy_do_get_result(status, content) ==
    IF raise_for_status(status) THEN Raised("HTTPError")
    ELSE ParsedOrNone(content)

\* the if / elif chain over verb: get sends no body, post and put send it
Dispatch(verb, url, body, headers) ==
    [ok |-> TRUE, verb |-> verb, url |-> url, headers |-> headers,
     has_data |-> verb # "get", data |-> IF verb = "get" THEN << >> ELSE body,
     has_params |-> FALSE, params |-> << >>]

\* headers.update({'Content-Type': 'application/json'}) when there is a body
WithContentType(headers, body) ==
    IF Len(body) > 0
    THEN DictSet(headers, content_type_header, application_json)
    ELSE headers

MkArgs(verb, url, body, pg, pv, hg, hv) ==
    [verb |-> verb, url |-> url, body |-> body,
     params_given |-> pg, params |-> IF pg THEN pv ELSE << >>,
     headers_given |-> hg, headers |-> IF hg THEN hv ELSE << >>]

(***************************************************************************)
(* Actions.                                                                *)
(***************************************************************************)
\* do_req through auth_request_as_hmac: restv1-hmac.py lines 94-112, and
\* restv1-auth.py lines 122-144 when auth_method is "hmac".  The call hands
\* the signer url, body and params, and never its own `headers`.
DoReqViaHmac(base, client, verb, url, body, pg, pv, hg, hv) ==
    /\ pc = "idle"
    /\ \E a \in {auth_request_as_hmac(url, IF pg THEN pv ELSE req_default_params,
                                      hmac_default_headers, body,
                                      base, client, secret_key, now)} :
       \E headers \in {IF a.exc = "" THEN WithContentType(a.headers, body)
                       ELSE a.headers} :
        /\ hmac_default_headers' = headers
        /\ op' = "do_req"
        /\ args' = MkArgs(verb, url, body, pg, pv, hg, hv)
        /\ caller_params' = IF pg THEN pv ELSE << >>
        /\ caller_headers' = IF hg THEN hv ELSE << >>
        /\ auth_before' = hmac_default_headers
        /\ auth_after' = a.headers
        /\ ret' = IF a.exc = ""
                  THEN [ok |-> TRUE, url |-> a.url, headers |-> a.headers]
                  ELSE NoRet
        /\ payload' = a.payload
        /\ resp' = NoResp
        /\ IF a.exc # ""
           THEN /\ sent' = NoSent
                /\ pc' = "done"
                /\ outcome' = Raised(a.exc)
           ELSE IF verb \notin {"get", "post", "put"}
           THEN \* no branch bound `response`: line 114 reads an unbound local
                /\ sent' = NoSent
                /\ pc' = "done"
                /\ outcome' = Raised("UnboundLocalError")
           ELSE /\ sent' = Dispatch(verb, a.url, body, headers)
                /\ pc' = "awaiting"
                /\ outcome' = NoOutcome
        /\ UNCHANGED <<config_vars, now, url_default_params,
                       url_default_headers, req_default_params, hm_vars>>

HmacPy_do_req(verb, url, body, pg, pv, hg, hv) ==
    /\ script = "restv1-hmac.py"
    /\ DoReqViaHmac(API_BASE_URL, CLIENT_ID, verb, url, body, pg, pv, hg, hv)

AuthPy_do_req_hmac(verb, url, body, pg, pv, hg, hv) ==
    /\ script = "restv1-auth.py"
    /\ auth_method = "hmac"
    /\ DoReqViaHmac(base_url, client_id, verb, url, body, pg, pv, hg, hv)

\* restv1-auth.py lines 122-144 when auth_method is "url"
AuthPy_do_req_url(verb, url, body, pg, pv, hg, hv) ==
    /\ script = "restv1-auth.py"
    /\ auth_method = "url"
    /\ pc = "idle"
    /\ \E u \in {auth_request_as_url(url, IF pg THEN pv ELSE req_default_params,
                                     base_url, dev_demo_key)} :
       \E headers \in {WithContentType(url_default_headers, body)} :
        /\ url_default_headers' = headers
        /\ req_default_params' = IF pg THEN req_default_params ELSE u.params
        /\ op' = "do_req"
        /\ args' = MkArgs(verb, url, body, pg, pv, hg, hv)
        /\ caller_params' = IF pg THEN u.params ELSE << >>
        /\ caller_headers' = IF hg THEN hv ELSE << >>
        /\ auth_before' = url_default_headers
        /\ auth_after' = url_default_headers
        /\ ret' = [ok |-> TRUE, url |-> u.url, headers |-> url_default_headers]
        /\ payload' = NoPayload
        /\ resp' = NoResp
        /\ IF verb \notin {"get", "post", "put"}
           THEN /\ sent' = NoSent
                /\ pc' = "done"
                /\ outcome' = Raised("UnboundLocalError")
           ELSE /\ sent' = Dispatch(verb, u.url, body, headers)
                /\ pc' = "awaiting"
                /\ outcome' = NoOutcome
        /\ UNCHANGED <<config_vars, now, hmac_default_headers,
                       url_default_params, hm_vars>>

\* restv1-auth.py lines 129-130: any other auth_method
AuthPy_do_req_unknown(verb, url, body, pg, pv, hg, hv) ==
    /\ script = "restv1-auth.py"
    /\ auth_method \notin {"hmac", "url"}
    /\ pc = "idle"
    /\ op' = "do_req"
    /\ args' = MkArgs(verb, url, body, pg, pv, hg, hv)
    /\ caller_params' = IF pg THEN pv ELSE << >>
    /\ caller_headers' = IF hg THEN hv ELSE << >>
    /\ auth_before' = << >>
    /\ auth_after' = << >>
    /\ ret' = NoRet
    /\ payload' = NoPayload
    /\ sent' = NoSent
    /\ resp' = NoResp
    /\ pc' = "done"
    /\ outcome' = Raised("Exception")
    /\ UNCHANGED <<config_vars, now, default_vars, hm_vars>>

\* restv1-apikey.py lines 26-41
ApiKeyPy_do_get(url, pg, pv, hg, hv) ==
    /\ script = "restv1-apikey.py"
    /\ pc = "idle"
    /\ \E p \in {DictSet(IF pg THEN pv ELSE req_default_params, key_param, API_KEY)} :
       \E headers \in {IF hg THEN hv ELSE << >>} :
        /\ req_default_params' = IF pg THEN req_default_params ELSE p
        /\ op' = "do_get"
        /\ args' = MkArgs("get", url, << >>, pg, pv, hg, hv)
        /\ caller_params' = IF pg THEN p ELSE << >>
        /\ caller_headers' = IF hg THEN hv ELSE << >>
        /\ auth_before' = headers
        /\ auth_after' = headers
        /\ ret' = NoRet
        /\ payload' = NoPayload
        /\ resp' = NoResp
        /\ sent' = [ok |-> TRUE, verb |-> "get",
                    url |-> strip(ApiKey_API_BASE_URL, 47) \o url,
                    headers |-> headers, has_data |-> FALSE, data |-> << >>,
                    has_params |-> TRUE, params |-> p]
        /\ pc' = "awaiting"
        /\ outcome' = NoOutcome
        /\ UNCHANGED <<config_vars, now, hmac_default_headers,
                       url_default_params, url_default_headers, hm_vars>>

\* a caller calling auth_request_as_hmac itself (either script)
Call_auth_request_as_hmac(url, body, pg, pv, hg, hv) ==
    /\ script \in {"restv1-hmac.py", "restv1-auth.py"}
    /\ pc = "idle"
    /\ \E headers \in {IF hg THEN hv ELSE hmac_default_headers} :
       \E a \in {auth_request_as_hmac(url, IF pg THEN pv ELSE << >>, headers, body,
                 IF script = "restv1-hmac.py" THEN API_BASE_URL ELSE base_url,
                 IF script = "restv1-hmac.py" THEN CLIENT_ID ELSE client_id,
                 secret_key, now)} :
        /\ hmac_default_headers' = IF hg THEN hmac_default_headers ELSE a.headers
        /\ op' = "auth_request_as_hmac"
        /\ args' = MkArgs("", url, body, pg, pv, hg, hv)
        /\ caller_params' = IF pg THEN pv ELSE << >>
        /\ caller_headers' = IF hg THEN a.headers ELSE << >>
        /\ auth_before' = headers
        /\ auth_after' = a.headers
        /\ ret' = IF a.exc = ""
                  THEN [ok |-> TRUE, url |-> a.url, headers |-> a.headers]
                  ELSE NoRet
        /\ payload' = a.payload
        /\ sent' = NoSent
        /\ resp' = NoResp
        /\ pc' = "done"
        /\ outcome' = IF a.exc = "" THEN Returned("tuple") ELSE Raised(a.exc)
        /\ UNCHANGED <<config_vars, now, url_default_params,
                       url_default_headers, req_default_params, hm_vars>>

\* a caller calling auth_request_as_url itself (restv1-auth.py)
Call_auth_request_as_url(url, body, pg, pv, hg, hv) ==
    /\ script = "restv1-auth.py"
    /\ pc = "idle"
    /\ \E headers \in {IF hg THEN hv ELSE url_default_headers} :
       \E u \in {auth_request_as_url(url, IF pg THEN pv ELSE url_default_params,
                                     base_url, dev_demo_key)} :
        /\ url_default_params' = IF pg THEN url_default_params ELSE u.params
        /\ op' = "auth_request_as_url"
        /\ args' = MkArgs("", url, body, pg, pv, hg, hv)
        /\ caller_params' = IF pg THEN u.params ELSE << >>
        /\ caller_headers' = IF hg THEN hv ELSE << >>
        /\ auth_before' = headers
        /\ auth_after' = headers
        /\ ret' = [ok |-> TRUE, url |-> u.url, headers |-> headers]
        /\ payload' = NoPayload
        /\ sent' = NoSent
        /\ resp' = NoResp
        /\ pc' = "done"
        /\ outcome' = Returned("tuple")
        /\ UNCHANGED <<config_vars, now, hmac_default_headers,
                       url_default_headers, req_default_params, hm_vars>>

\* the HTTP call returns a response and do_req / do_get runs to its end
Respond(status, content) ==
    /\ pc = "awaiting"
    /\ resp' = [ok |-> TRUE, status |-> status, content |-> content]
    /\ outcome' =
          IF script = "restv1-hmac.py" THEN HmacPy_do_req_result(status, content)
          ELSE IF script = "restv1-auth.py" THEN AuthPy_do_req_result(status, content)
          ELSE ApiKeyPy_do_get_result(status, content)
    /\ pc' = "done"
    /\ UNCHANGED <<config_vars, now, default_vars, op, args, caller_params,
                   caller_headers, auth_before, auth_after, ret, payload,
                   sent, hm_vars>>

\* the caller goes on: the call's arguments and locals are gone
Return ==
    /\ pc = "done"
    /\ pc' = "idle"
    /\ op' = "none"
    /\ args' = NoArgs
    /\ caller_params' = << >>
    /\ caller_headers' = << >>
    /\ auth_before' = << >>
    /\ auth_after' = << >>
    /\ ret' = NoRet
    /\ payload' = NoPayload
    /\ sent' = NoSent
    /\ resp' = NoResp
    /\ outcome' = NoOutcome
    /\ UNCHANGED <<config_vars, now, default_vars, hm_vars>>

\* time passes between calls
Tick ==
    /\ pc = "idle"
    /\ now < StartTime + MaxTicks
    /\ now' = now + 1
    /\ UNCHANGED <<config_vars, default_vars, pc, frame_vars, hm_vars>>

(***************************************************************************)
(* The scripts as run: every dict default is empty when the module loads.  *)
(***************************************************************************)
Configs ==
    [script : {"restv1-hmac.py"}, auth_method : {"hmac"}, secret_key : SecretKeys]
    \cup [script : {"restv1-auth.py"}, auth_method : {"hmac", "url", "app"},
          secret_key : {hmac_secret_key}]
    \cup [script : {"restv1-apikey.py"}, auth_method : {"url"},
          secret_key : {hmac_secret_key}]

FrameInit ==
    /\ pc = "idle"
    /\ op = "none"
    /\ args = NoArgs
    /\ caller_params = << >>
    /\ caller_headers = << >>
    /\ auth_before = << >>
    /\ auth_after = << >>
    /\ ret = NoRet
    /\ payload = NoPayload
    /\ sent = NoSent
    /\ resp = NoResp
    /\ outcome = NoOutcome

DefaultsInit ==
    /\ hmac_default_headers = << >>
    /\ url_default_params = << >>
    /\ url_default_headers = << >>
    /\ req_default_params = << >>

HmInit ==
    /\ hm_key = << >>
    /\ hm_message = << >>
    /\ hm_called = FALSE
    /\ hm_o_key_pad = << >>
    /\ hm_i_key_pad = << >>
    /\ hm_digest = << >>

InitOf(configs) ==
    /\ \E c \in configs :
          /\ script = c.script
          /\ auth_method = c.auth_method
          /\ secret_key = c.secret_key
    /\ now = StartTime
    /\ DefaultsInit
    /\ FrameInit
    /\ HmInit

Init == InitOf(Configs)

Do_req ==
    \E verb \in Verbs, url \in Paths, body \in Bodies,
       pg \in BOOLEAN, pv \in ParamValues, hg \in BOOLEAN, hv \in HeaderValues :
          \/ HmacPy_do_req(verb, url, body, pg, pv, hg, hv)
          \/ AuthPy_do_req_hmac(verb, url, body, pg, pv, hg, hv)
          \/ AuthPy_do_req_url(verb, url, body, pg, pv, hg, hv)
          \/ AuthPy_do_req_unknown(verb, url, body, pg, pv, hg, hv)

Do_get ==
    \E url \in Paths, pg \in BOOLEAN, pv \in ParamValues,
       hg \in BOOLEAN, hv \in HeaderValues :
          ApiKeyPy_do_get(url, pg, pv, hg, hv)

SignDirectly ==
    \E url \in Paths, body \in Bodies,
       pg \in BOOLEAN, pv \in ParamValues, hg \in BOOLEAN, hv \in HeaderValues :
          Call_auth_request_as_hmac(url, body, pg, pv, hg, hv)

AddKeyDirectly ==
    \E url \in Paths, body \in Bodies,
       pg \in BOOLEAN, pv \in ParamValues, hg \in BOOLEAN, hv \in HeaderValues :
          Call_auth_request_as_url(url, body, pg, pv, hg, hv)

Response == \E r \in Responses : Respond(r.status, r.content)

Next ==
    \/ Do_req
    \/ Do_get
    \/ SignDirectly
    \/ AddKeyDirectly
    \/ Response
    \/ Return
    \/ Tick

\* any of the three scripts
Spec == Init /\ [][Next]_vars

\* restv1-hmac.py, with the secret as shipped or replaced by a hex one
InitHmacPy == InitOf({c \in Configs : c.script = "restv1-hmac.py"})

NextHmacPy ==
    \/ \E verb \in Verbs, url \in Paths, body \in Bodies,
          pg \in BOOLEAN, pv \in ParamValues, hg \in BOOLEAN, hv \in HeaderValues :
             HmacPy_do_req(verb, url, body, pg, pv, hg, hv)
    \/ SignDirectly
    \/ Response
    \/ Return
    \/ Tick

SpecHmacPy == InitHmacPy /\ [][NextHmacPy]_vars

\* restv1-auth.py under each auth_method
InitAuthPy == InitOf({c \in Configs : c.script = "restv1-auth.py"})

NextAuthPy ==
    \/ \E verb \in Verbs, url \in Paths, body \in Bodies,
          pg \in BOOLEAN, pv \in ParamValues, hg \in BOOLEAN, hv \in HeaderValues :
             \/ AuthPy_do_req_hmac(verb, url, body, pg, pv, hg, hv)
             \/ AuthPy_do_req_url(verb, url, body, pg, pv, hg, hv)
             \/ AuthPy_do_req_unknown(verb, url, body, pg, pv, hg, hv)
    \/ SignDirectly
    \/ AddKeyDirectly
    \/ Response
    \/ Return
    \/ Tick

SpecAuthPy == InitAuthPy /\ [][NextAuthPy]_vars

\* restv1-apikey.py
InitApiKeyPy == InitOf({c \in Configs : c.script = "restv1-apikey.py"})

NextApiKeyPy ==
    \/ Do_get
    \/ Response
    \/ Return
    \/ Tick

SpecApiKeyPy == InitApiKeyPy /\ [][NextApiKeyPy]_vars

(***************************************************************************)
(* hmac() on its own: one call per pair of arguments.                      *)
(***************************************************************************)
HmacKeys == {[i \in 1..n |-> (37 * i + n) % 256] \o << >> : n \in 0..MaxKeyLen}

HmacMessages == {<< >>, <<0>>, <<255, 1>>}

HmacCall ==
    /\ ~hm_called
    /\ hm_called' = TRUE
    /\ hm_o_key_pad' = o_key_pad(hm_key)
    /\ hm_i_key_pad' = i_key_pad(hm_key)
    /\ hm_digest' = hmac(hm_key, hm_message)
    /\ UNCHANGED <<config_vars, now, default_vars, pc, frame_vars,
                   hm_key, hm_message>>

InitHmacFn ==
    /\ script = "restv1-hmac.py"
    /\ auth_method = "hmac"
    /\ secret_key = hmac_secret_key
    /\ now = StartTime
    /\ DefaultsInit
    /\ FrameInit
    /\ hm_key \in HmacKeys
    /\ hm_message \in HmacMessages
    /\ hm_called = FALSE
    /\ hm_o_key_pad = << >>
    /\ hm_i_key_pad = << >>
    /\ hm_digest = << >>

NextHmacFn == HmacCall

SpecHmacFn == InitHmacFn /\ [][NextHmacFn]_vars

(***************************************************************************)
(* Helpers of the properties: reading a request back.                      *)
(***************************************************************************)
\* whether t occurs in s as a run of adjacent elements
Contains(s, t) ==
    \E i \in 1..(Len(s) - Len(t) + 1) : SubSeq(s, i, i + Len(t) - 1) = t

StartsWith(s, t) == Len(s) >= Len(t) /\ SubSeq(s, 1, Len(t)) = t

\* s without its first n elements
Drop(s, n) == SubSeq(s, n + 1, Len(s))

\* the pieces of s between the occurrences of c
Pieces(s, c) ==
    LET at == SelectSeq([i \in 1..Len(s) |-> i] \o << >>, LAMBDA i : s[i] = c)
        cuts == <<0>> \o at \o <<Len(s) + 1>>
    IN  {SubSeq(s, cuts[j] + 1, cuts[j + 1] - 1) : j \in 1..(Len(cuts) - 1)}

\* urllib.parse.unquote_plus on ASCII text: '+' is a space, %XX is a byte
UnquotePlus(t) ==
    LET m == [i \in 1..Len(t) |->
                IF (i > 1 /\ t[i - 1] = 37) \/ (i > 2 /\ t[i - 2] = 37) THEN 0 - 1
                ELSE IF t[i] = 37 /\ i + 2 <= Len(t)
                     THEN 16 * HexValue(t[i + 1]) + HexValue(t[i + 2])
                ELSE IF t[i] = 43 THEN 32
                ELSE t[i]] \o << >>
    IN  SelectSeq(m, LAMBDA x : x >= 0)

\* one name=value piece of a query string, decoded
QueryPair(t) ==
    LET eq == SelectSeq([i \in 1..Len(t) |-> i] \o << >>, LAMBDA i : t[i] = 61)
    IN  IF eq = << >> THEN <<UnquotePlus(t), << >> >>
        ELSE <<UnquotePlus(SubSeq(t, 1, eq[1] - 1)),
               UnquotePlus(SubSeq(t, eq[1] + 1, Len(t)))>>

\* the decoded (name, value) pairs of a query string
ParseQuery(q) == {QueryPair(t) : t \in Pieces(q, 38)}

(***************************************************************************)
(* The texts the properties are stated in.                                 *)
(***************************************************************************)
\* 'X-Kaiterra-Client='
CLIENT_PREFIX ==
    <<88, 45, 75, 97, 105, 116, 101, 114, 114, 97, 45, 67, 108, 105, 101, 110, 116, 61>>
\* '&X-Kaiterra-Time='
TIME_PREFIX ==
    <<38, 88, 45, 75, 97, 105, 116, 101, 114, 114, 97, 45, 84, 105, 109, 101, 61>>
\* 'X-Kaiterra-Client', 'X-Kaiterra-Time', 'X-Kaiterra-HMAC', 'Content-Type'
CLIENT_NAME ==
    <<88, 45, 75, 97, 105, 116, 101, 114, 114, 97, 45, 67, 108, 105, 101, 110, 116>>
TIME_NAME ==
    <<88, 45, 75, 97, 105, 116, 101, 114, 114, 97, 45, 84, 105, 109, 101>>
HMAC_NAME ==
    <<88, 45, 75, 97, 105, 116, 101, 114, 114, 97, 45, 72, 77, 65, 67>>
CONTENT_TYPE_NAME ==
    <<67, 111, 110, 116, 101, 110, 116, 45, 84, 121, 112, 101>>
\* 'key' and 'key='
KEY_NAME ==
    <<107, 101, 121>>
KEY_EQUALS ==
    <<107, 101, 121, 61>>
\* 'https://api.kaiterra.cn/v1', where restv1-hmac.py sends its requests
HMAC_ORIGIN ==
    <<104, 116, 116, 112, 115, 58, 47, 47, 97, 112, 105, 46, 107, 97, 105, 116, 101, 114, 114, 97, 46, 99, 110, 47, 118, 49>>
\* 'https://api.origins-china.cn/v1', where restv1-auth.py sends its requests
AUTH_ORIGIN ==
    <<104, 116, 116, 112, 115, 58, 47, 47, 97, 112, 105, 46, 111, 114, 105, 103, 105, 110, 115, 45, 99, 104, 105, 110, 97, 46, 99, 110, 47, 118, 49>>

\* auth_request_as_hmac has just ended in the call of the frame: it returned
\* or raised, and no response has come yet
Signing == op \in {"do_req", "auth_request_as_hmac"} /\ ~resp.ok

\* the message M of C1, put together from the call's arguments
C1_Message ==
    CLIENT_PREFIX \o CLIENT_ID
        \o TIME_PREFIX \o format_x(now)
        \o args.url
        \o (IF args.params # << >> THEN <<63>> \o urlencode(args.params) ELSE << >>)
        \o args.body

(***************************************************************************)
(* C1.  Every request signed by auth_request_as_hmac comes back with       *)
(* X-Kaiterra-Client = the client id, X-Kaiterra-Time = the timestamp read *)
(* in that call and X-Kaiterra-HMAC = base64(hmac(secret, M)), where M is  *)
(* 'X-Kaiterra-Client=<id>&X-Kaiterra-Time=<timestamp>', the relative path *)
(* (with '?' and the url-encoded params only when there are params) and    *)
(* the body, joined with nothing between them, and the timestamp in M is   *)
(* the one in the header.                                                  *)
(***************************************************************************)
C1_SignedHeaders ==
    (Signing /\ ret.ok) =>
        /\ DictGet(ret.headers, CLIENT_NAME) = CLIENT_ID
        /\ DictGet(ret.headers, TIME_NAME) = format_x(now)
        /\ payload.stamp = format_x(now)
        /\ payload.bytes = C1_Message
        /\ DictGet(ret.headers, HMAC_NAME)
              = b64encode(hmac(fromhex(secret_key), C1_Message))

C1_Witness ==
    /\ Signing
    /\ ret.ok
    /\ now > StartTime
    /\ args.params # << >>
    /\ args.body # << >>
    /\ Len(DictGet(ret.headers, HMAC_NAME)) = 44

(***************************************************************************)
(* C2.  In HMAC mode the path and query of the URL handed to the transport *)
(* are the very bytes that were signed, the transport is given no params   *)
(* of its own, and the body sent is the body that was signed.              *)
(***************************************************************************)
C2_SentIsWhatWasSigned ==
    (op = "do_req" /\ sent.ok /\ payload.ok) =>
        LET head == CLIENT_PREFIX \o CLIENT_ID \o TIME_PREFIX \o payload.stamp
            signed == Drop(payload.bytes, Len(head))
            origin == HMAC_ORIGIN
        IN  /\ StartsWith(sent.url, origin)
            /\ ~sent.has_params
            /\ signed = Drop(sent.url, Len(origin)) \o sent.data

(***************************************************************************)
(* C3.  Whatever response has a status outside 200..299, 1xx and 3xx       *)
(* included, the dispatch helper ends by raising and returns nothing.      *)
(***************************************************************************)
C3_NonSuccessRaises ==
    (resp.ok /\ ~(200 <= resp.status /\ resp.status <= 299)) =>
        outcome.kind = "raised"

(***************************************************************************)
(* C4.  Nothing of a call's request survives into the next: the headers a  *)
(* call dispatches depend on its own arguments only, so a call with an     *)
(* empty body never carries the Content-Type an earlier call added.        *)
(***************************************************************************)
C4_NoHeaderCarriedOver ==
    (sent.ok /\ Len(args.body) = 0) =>
        ~DictHas(sent.headers, CONTENT_TYPE_NAME)

(***************************************************************************)
(* C5.  Key-in-URL authentication is a pure transformation: the headers    *)
(* returned (auth_request_as_url) or dispatched (do_get) are the headers   *)
(* given, and the caller's params and headers mappings hold after the call *)
(* what they held before it: no 'key' entry is added to the caller's       *)
(* params.                                                                 *)
(***************************************************************************)
C5_KeyAuthIsPure ==
    (op \in {"auth_request_as_url", "do_get"}) =>
        /\ (op = "auth_request_as_url" /\ args.headers_given) =>
              ret.headers = args.headers
        /\ (op = "do_get" /\ args.headers_given) => sent.headers = args.headers
        /\ args.headers_given => caller_headers = args.headers
        /\ args.params_given => caller_params = args.params

(***************************************************************************)
(* C6.  auth_request_as_url returns base URL, path, '?' and a query that   *)
(* holds key=<developer key>: exactly path?key=value when params is empty, *)
(* and every entry of params together with the key entry otherwise.        *)
(***************************************************************************)
C6_KeyInUrl ==
    (op = "auth_request_as_url" /\ ret.ok) =>
        LET front == AUTH_ORIGIN \o args.url \o <<63>>
            query == Drop(ret.url, Len(front))
        IN  /\ StartsWith(ret.url, front)
            /\ KEY_EQUALS \o dev_demo_key \in Pieces(query, 38)
            /\ ParseQuery(query)
                  = DictItems(args.params) \cup { <<KEY_NAME, dev_demo_key>> }
            /\ args.params = << >> =>
                  ret.url = AUTH_ORIGIN \o args.url \o <<63>> \o KEY_EQUALS \o dev_demo_key

C6_Witness ==
    /\ op = "auth_request_as_url"
    /\ ret.ok
    /\ args.params_given
    /\ args.params # << >>
    /\ Cardinality(ParseQuery(Drop(ret.url, Len(AUTH_ORIGIN \o args.url \o <<63>>)))) = 2

\* the 64-byte key of C7, by the three cases on the key's length
C7_Key ==
    IF Len(hm_key) = 64 THEN hm_key
    ELSE IF Len(hm_key) < 64
    THEN hm_key \o [i \in 1..(64 - Len(hm_key)) |-> 0]
    ELSE hash(hm_key) \o [i \in 1..32 |-> 0]

(***************************************************************************)
(* C7.  In hmac(key, message) the key behind both pads is 64 bytes long:   *)
(* the key itself when it is 64 bytes, the key followed by zero bytes when *)
(* it is shorter, SHA256(key) followed by zero bytes when it is longer;    *)
(* and the result is H((k ^ 0x5c..) + H((k ^ 0x36..) + message)).          *)
(***************************************************************************)
C7_KeyNormalised ==
    hm_called =>
        /\ Len(C7_Key) = 64
        /\ Len(hm_o_key_pad) = 64
        /\ Len(hm_i_key_pad) = 64
        /\ \A i \in 1..64 :
              /\ hm_o_key_pad[i] = XorBits(92, C7_Key[i], 8)
              /\ hm_i_key_pad[i] = XorBits(54, C7_Key[i], 8)
        /\ hm_digest = hash(hm_o_key_pad \o hash(hm_i_key_pad \o hm_message))

C7_Witness ==
    /\ hm_called
    /\ Len(hm_key) > 64
    /\ Len(hm_message) > 0
    /\ Len(hm_digest) = 32

(***************************************************************************)
(* C8.  As claimed: auth_request_as_hmac fails if and only if the secret   *)
(* key text is not valid hex; then it raises before it touches any header  *)
(* mapping and do_req dispatches nothing; with a valid hex secret it       *)
(* returns a URL and headers whatever the path, params and body.           *)
(***************************************************************************)
C8_FailsOnlyOnBadHex ==
    Signing =>
        /\ ~ret.ok <=> ~IsValidHex(secret_key)
        /\ ~IsValidHex(secret_key) => (auth_after = auth_before /\ ~sent.ok)

(***************************************************************************)
(* C8, amended.  auth_request_as_hmac fails if and only if the secret key  *)
(* text is not valid hex or the relative path is not ASCII.  With a secret *)
(* that is not hex it raises ValueError before it touches any header       *)
(* mapping; with a hex secret and a path that is not ASCII it raises       *)
(* UnicodeEncodeError after it wrote the client and time headers; either   *)
(* way do_req dispatches nothing.  With a hex secret it returns a URL and  *)
(* headers for every ASCII path, params and body.                          *)
(***************************************************************************)
C8_FailsOnBadHexOrPath ==
    Signing =>
        /\ ~ret.ok <=> (~IsValidHex(secret_key) \/ ~IsAscii(args.url))
        /\ ~ret.ok => ~sent.ok
        /\ ~IsValidHex(secret_key) =>
              (auth_after = auth_before /\ outcome.exc = "ValueError")
        /\ (IsValidHex(secret_key) /\ ~IsAscii(args.url)) =>
              /\ outcome.exc = "UnicodeEncodeError"
              /\ DictGet(auth_after, TIME_NAME) = format_x(now)
              /\ DictGet(auth_after, CLIENT_NAME) = CLIENT_ID

C8_Witness ==
    /\ op = "do_req"
    /\ IsValidHex(secret_key)
    /\ outcome.exc = "UnicodeEncodeError"
    /\ auth_after # auth_before
    /\ ~sent.ok

\* everything of the request handed to the transport: URL, body, header names and values
C9_Parts ==
    {sent.url, sent.data}
        \cup {h[1] : h \in DictItems(sent.headers)}
        \cup {h[2] : h \in DictItems(sent.headers)}

(***************************************************************************)
(* C9.  In HMAC mode the secret key is never transmitted: neither the URL  *)
(* nor any header nor the body handed to the transport holds the secret,   *)
(* as hex text or as raw bytes; what do_req adds is the client id, the     *)
(* timestamp and the signature (and the content type of a body).           *)
(***************************************************************************)
C9_SecretNotSent ==
    (op = "do_req" /\ sent.ok /\ ~resp.ok) =>
        /\ \A part \in C9_Parts :
              /\ ~Contains(part, secret_key)
              /\ ~Contains(part, fromhex(secret_key))
        /\ DictKeys(sent.headers)
              \subseteq {CLIENT_NAME, TIME_NAME, HMAC_NAME, CONTENT_TYPE_NAME}
        /\ DictGet(sent.headers, CLIENT_NAME) = CLIENT_ID
        /\ DictGet(sent.headers, TIME_NAME) = format_x(now)
        /\ Len(DictGet(sent.headers, HMAC_NAME)) = 44

C9_Witness ==
    /\ op = "do_req"
    /\ sent.ok
    /\ ~resp.ok
    /\ sent.has_data
    /\ Len(sent.data) > 0
    /\ Len(fromhex(secret_key)) > 64
    /\ DictHas(sent.headers, HMAC_NAME)

(***************************************************************************)
(* C10.  The headers do_req hands to the transport are the caller's        *)
(* headers with the authentication entries added: no header the caller     *)
(* supplied is dropped.                                                    *)
(***************************************************************************)
C10_CallerHeadersKept ==
    (op = "do_req" /\ sent.ok /\ args.headers_given) =>
        DictItems(args.headers) \subseteq DictItems(sent.headers)

====
